---- MODULE Spec2Model ----
(***************************************************************************)
(* A model of sabiwm's state core: the focus Stack (core/stack.rs), the    *)
(* Workspace that owns an optional Stack (core/workspace.rs), the Xcb      *)
(* backend's event translation (backend/xcb/mod.rs) and the run loop that  *)
(* reconciles the Workspace with backend events (lib.rs).                  *)
(*                                                                         *)
(* The specifications share the variables:                                 *)
(*   Spec           the run loop of lib.rs, fed by Xcb::event              *)
(*   EventSpec      the match of the run loop on every Event variant       *)
(*   StackSpec      the Stack/Workspace algebra applied to arbitrary       *)
(*                  bounded stacks, one call per step                      *)
(*   WorkspaceSpec  Workspace::add and Workspace::remove from the empty    *)
(*                  Workspace                                              *)
(*   RectangleSpec  Rectangle::is_inside on bounded rectangles and points  *)
(***************************************************************************)
EXTENDS Integers, Sequences, FiniteSets, TLC

VARIABLES
    workspace,  \* lib.rs `workspace`: the current Workspace value
    prev,       \* the Workspace value before the last step
    event,      \* the Event the last loop iteration got from xcb.event()
    attrs,      \* the get_window_attributes reply is_window saw in that iteration
    effects,    \* what the last loop iteration did, in program order
    history,    \* the events processed so far, oldest first
    call,       \* StackSpec: the last call applied to the workspace
    running,    \* run has not returned: the loop goes on to the next xcb.event()
    rectangle,  \* RectangleSpec: the receiver of is_inside
    point,      \* RectangleSpec: the coordinates handed to is_inside
    build,      \* RectangleSpec: "debug" (overflow checks on) or "release"
    inside      \* RectangleSpec: what is_inside did

geometry == <<rectangle, point, build, inside>>
vars == <<workspace, prev, event, attrs, effects, history, call, running,
          rectangle, point, build, inside>>

----------------------------------------------------------------------------
(* Bounds *)

MaxWindow == 3      \* window ids are 1..MaxWindow
MaxEvents == 3      \* the run loop is followed for this many events
MaxElem   == 3      \* StackSpec: stack elements are 1..MaxElem
MaxSize   == 4      \* StackSpec: stacks hold at most this many elements
IntBits   == 6      \* RectangleSpec: i32 and u32 are modelled IntBits bits wide

(* Program constants *)

MainId       == 0   \* Workspace::new(0, "Main", None)
ResizeWidth  == 50  \* xcb.resize_window(window, 50, 50)
ResizeHeight == 50

Windows == 1..MaxWindow
Elems   == 1..MaxElem

----------------------------------------------------------------------------
(* Option<T> as a sequence of at most one element; Vec<T> as a sequence *)

None == <<>>
Some(x) == <<x>>
IsSome(o) == o # None
Unwrap(o) == o[1]

\* Iterator::rev followed by collect
Rev(v) == [i \in 1..Len(v) |-> v[Len(v) + 1 - i]]

\* Iterator::skip(1) followed by collect
Skip1(v) == IF v = <<>> THEN <<>> ELSE Tail(v)

\* Iterator::filter(|x| f(x)) followed by collect; f is a function to BOOLEAN
Filtered(v, f) == SelectSeq(v, LAMBDA x : f[x])

\* Vec::contains
VecContains(v, t) == \E i \in 1..Len(v) : v[i] = t

----------------------------------------------------------------------------
(* core/stack.rs *)

StackNew(f, up, down) == [focus |-> f, up |-> up, down |-> down]

StackFrom(t) == [focus |-> t, up |-> <<>>, down |-> <<>>]

\* mutant: the new element is pushed below and the old focus stays focused
StackAdd_KeepFocus(s, t) ==
    [focus |-> s.focus,
     up    |-> s.up,
     down  |-> s.down \o <<t>>]

\* mutant: the old focus is put first in `down` instead of last
StackAdd_Prepend(s, t) ==
    [focus |-> t,
     up    |-> s.up,
     down  |-> <<s.focus>> \o s.down]

StackAdd(s, t) ==
    [focus |-> t,
     up    |-> s.up,
     down  |-> s.down \o <<s.focus>>]

StackIntegrate(s) == Rev(s.up) \o <<s.focus>> \o s.down

\* mutant: only the focus is tested; `down` is kept as it is
StackFilter_FocusOnly(s, f) ==
    IF f[s.focus]
    THEN Some(StackNew(s.focus, Filtered(s.up, f), s.down))
    ELSE IF s.down # <<>>
         THEN Some(StackNew(s.down[1], Filtered(s.up, f), Skip1(s.down)))
         ELSE LET filtered == Filtered(s.up, f)
              IN  IF filtered # <<>>
                  THEN Some(StackNew(filtered[1], Skip1(filtered), <<>>))
                  ELSE None

\* mutant: `up` is filtered in integrate (top-first) order
StackFilter_UpReversed(s, f) ==
    LET lrs      == Filtered(<<s.focus>> \o s.down, f)
        filtered == Filtered(Rev(s.up), f)
    IN  IF lrs # <<>>
        THEN Some(StackNew(lrs[1], filtered, Skip1(lrs)))
        ELSE IF filtered # <<>>
             THEN Some(StackNew(filtered[1], Skip1(filtered), <<>>))
             ELSE None

\* mutant: a match in `up` is preferred over one in [focus] ++ down
StackFilter_PreferUp(s, f) ==
    LET lrs      == Filtered(<<s.focus>> \o s.down, f)
        filtered == Filtered(s.up, f)
    IN  IF filtered # <<>>
        THEN Some(StackNew(filtered[1], Skip1(filtered), lrs))
        ELSE IF lrs # <<>>
             THEN Some(StackNew(lrs[1], <<>>, Skip1(lrs)))
             ELSE None

\* mutant: with no match in [focus] ++ down, the last match of `up` is focused
StackFilter_LastUp(s, f) ==
    LET lrs      == Filtered(<<s.focus>> \o s.down, f)
        filtered == Filtered(s.up, f)
    IN  IF lrs # <<>>
        THEN Some(StackNew(lrs[1], filtered, Skip1(lrs)))
        ELSE IF filtered # <<>>
             THEN Some(StackNew(filtered[Len(filtered)],
                                SubSeq(filtered, 1, Len(filtered) - 1), <<>>))
             ELSE None

\* mutant: the second phase is missing; no match in [focus] ++ down gives None
StackFilter_NoSecondPhase(s, f) ==
    LET lrs == Filtered(<<s.focus>> \o s.down, f)
    IN  IF lrs # <<>>
        THEN Some(StackNew(lrs[1], Filtered(s.up, f), Skip1(lrs)))
        ELSE None

StackFilter(s, f) ==
    LET lrs == Filtered(<<s.focus>> \o s.down, f)
    IN  IF lrs # <<>>
        THEN LET first    == lrs[1]
                 rest     == Skip1(lrs)
                 filtered == Filtered(s.up, f)
             IN  Some(StackNew(first, filtered, rest))
        ELSE LET filtered == Filtered(s.up, f)
             IN  IF filtered # <<>>
                 THEN LET first == filtered[1]
                          rest  == Skip1(filtered)
                      IN  Some(StackNew(first, rest, <<>>))
                 ELSE None

\* mutant: up and down are exchanged and each is reversed as well
StackReverse_Flipped(s) == StackNew(s.focus, Rev(s.down), Rev(s.up))

StackReverse(s) == StackNew(s.focus, s.down, s.up)

\* mutant: with `up` empty the focus stays where it is (no wrap-around)
StackFocusUp_NoWrap(s) ==
    IF s.up = <<>>
    THEN s
    ELSE LET down == <<s.focus>> \o s.down
             up   == Skip1(s.up)
         IN  StackNew(s.up[1], up, down)

\* mutant: on wrap-around the remaining elements are put in `down`, not `up`
StackFocusUp_WrapDown(s) ==
    IF s.up = <<>>
    THEN LET tmp == Rev(<<s.focus>> \o s.down)
             xs  == Skip1(tmp)
         IN  StackNew(tmp[1], <<>>, xs)
    ELSE LET down == <<s.focus>> \o s.down
             up   == Skip1(s.up)
         IN  StackNew(s.up[1], up, down)

StackFocusUp(s) ==
    IF s.up = <<>>
    THEN LET tmp == Rev(<<s.focus>> \o s.down)
             xs  == Skip1(tmp)
         IN  StackNew(tmp[1], xs, <<>>)
    ELSE LET down == <<s.focus>> \o s.down
             up   == Skip1(s.up)
         IN  StackNew(s.up[1], up, down)

\* mutant: the stack is not reversed back after focusing up
StackFocusDown_NotReversedBack(s) == StackFocusUp(StackReverse(s))

StackFocusDown(s) == StackReverse(StackFocusUp(StackReverse(s)))

\* mutant: the element above the focus is put at the end of `down`
StackSwapUp_ToBottom(s) ==
    IF s.up = <<>>
    THEN StackNew(s.focus, Rev(s.down), <<>>)
    ELSE LET x  == s.up[1]
             xs == Skip1(s.up)
             rs == s.down \o <<x>>
         IN  StackNew(s.focus, xs, rs)

\* mutant: on wrap-around `down` becomes `up` without being reversed
StackSwapUp_WrapUnreversed(s) ==
    IF s.up = <<>>
    THEN StackNew(s.focus, s.down, <<>>)
    ELSE LET x  == s.up[1]
             xs == Skip1(s.up)
             rs == <<x>> \o s.down
         IN  StackNew(s.focus, xs, rs)

StackSwapUp(s) ==
    IF s.up = <<>>
    THEN StackNew(s.focus, Rev(s.down), <<>>)
    ELSE LET x  == s.up[1]
             xs == Skip1(s.up)
             rs == <<x>> \o s.down
         IN  StackNew(s.focus, xs, rs)

\* mutant: the stack is not reversed back after swapping up
StackSwapDown_NotReversedBack(s) == StackSwapUp(StackReverse(s))

StackSwapDown(s) == StackReverse(StackSwapUp(StackReverse(s)))

\* mutant: the old master is dropped
StackSwapMaster_DropsMaster(s) ==
    IF s.up = <<>>
    THEN s
    ELSE LET r  == Rev(s.up)
             xs == Skip1(r)
             rs == xs \o s.down
         IN  StackNew(s.focus, <<>>, rs)

\* mutant: the old master is not moved to the focus's place; all of `up`
\* follows the focus in integrate order
StackSwapMaster_MoveOnly(s) ==
    IF s.up = <<>>
    THEN s
    ELSE StackNew(s.focus, <<>>, Rev(s.up) \o s.down)

\* mutant: no early return; a focus that is already master has `down` reversed
StackSwapMaster_NoEarlyReturn(s) ==
    IF s.up = <<>>
    THEN StackNew(s.focus, <<>>, Rev(s.down))
    ELSE LET r  == Rev(s.up)
             x  == r[1]
             xs == Skip1(r)
             rs == xs \o <<x>> \o s.down
         IN  StackNew(s.focus, <<>>, rs)

StackSwapMaster(s) ==
    IF s.up = <<>>
    THEN s
    ELSE LET r  == Rev(s.up)
             x  == r[1]
             xs == Skip1(r)
             rs == xs \o <<x>> \o s.down
         IN  StackNew(s.focus, <<>>, rs)

StackLen(s) == 1 + Len(s.up) + Len(s.down)

StackIsEmpty(s) == StackLen(s) = 0

StackContains(s, t) == VecContains(StackIntegrate(s), t)

----------------------------------------------------------------------------
(* core/workspace.rs *)

WorkspaceNew(id, tag, stack) == [id |-> id, tag |-> tag, stack |-> stack]

\* mutant: the existing stack is dropped and a fresh one is seeded
WorkspaceAdd_Fresh(ws, window) ==
    WorkspaceNew(ws.id, ws.tag, Some(StackFrom(window)))

WorkspaceAdd(ws, window) ==
    WorkspaceNew(ws.id, ws.tag,
                 Some(IF ws.stack = None
                      THEN StackFrom(window)
                      ELSE StackAdd(Unwrap(ws.stack), window)))

\* mutant: when nothing is left after filtering, the old stack is kept
WorkspaceRemove_KeepsLast(ws, window) ==
    WorkspaceNew(ws.id, ws.tag,
                 IF ws.stack = None
                 THEN None
                 ELSE LET r == StackFilter(Unwrap(ws.stack), [w \in Nat |-> w # window])
                      IN  IF r = None THEN ws.stack ELSE r)

WorkspaceRemove(ws, window) ==
    WorkspaceNew(ws.id, ws.tag,
                 IF ws.stack = None
                 THEN None
                 ELSE StackFilter(Unwrap(ws.stack),
                                  [w \in Nat |-> w # window]))

WorkspaceLen(ws) == IF ws.stack = None THEN 0 ELSE StackLen(Unwrap(ws.stack))

WorkspaceIsEmpty(ws) == WorkspaceLen(ws) = 0

WorkspaceContains(ws, window) ==
    IF ws.stack = None THEN FALSE ELSE StackContains(Unwrap(ws.stack), window)

WorkspaceWindows(ws) ==
    IF ws.stack = None THEN <<>> ELSE StackIntegrate(Unwrap(ws.stack))

WorkspacePeek(ws) ==
    IF ws.stack = None THEN None ELSE Some(Unwrap(ws.stack).focus)

\* the closure f of map / map_option is a function on the stacks it can be given
WorkspaceMap(ws, f) ==
    WorkspaceNew(ws.id, ws.tag,
                 IF ws.stack = None THEN None ELSE Some(f[Unwrap(ws.stack)]))

WorkspaceMapOption(ws, f) ==
    WorkspaceNew(ws.id, ws.tag,
                 IF ws.stack = None THEN None ELSE f[Unwrap(ws.stack)])

----------------------------------------------------------------------------
(* backend/xcb/mod.rs *)

\* what connection.wait_for_event() can hand to Xcb::event
NoRawEvent == [some |-> FALSE]
RawEvent(rt, w) == [some |-> TRUE, response_type |-> rt, window |-> w]

ResponseTypes == {"MAP_REQUEST", "DESTROY_NOTIFY", "OTHER"}

\* what get_window_attributes(..).get_reply() can hand to Xcb::is_window
AttrReplies ==
    {[ok |-> TRUE, override_redirect |-> FALSE],
     [ok |-> TRUE, override_redirect |-> TRUE],
     [ok |-> FALSE]}
NoQuery == [queried |-> FALSE]

XcbCreateWindow(raw) == [kind |-> "WindowCreated", window |-> raw.window]

XcbDestroyWindow(raw) == [kind |-> "WindowClosed", window |-> raw.window]

Unknown == [kind |-> "Unknown"]

XcbEvent(raw) ==
    IF raw.some
    THEN CASE raw.response_type = "MAP_REQUEST"    -> XcbCreateWindow(raw)
           [] raw.response_type = "DESTROY_NOTIFY" -> XcbDestroyWindow(raw)
           [] OTHER                                -> Unknown
    ELSE Unknown

XcbIsWindow(reply) ==
    IF reply.ok THEN ~reply.override_redirect ELSE TRUE

\* backend commands, as the run loop and Xcb::event issue them
MapWindow(w) == [op |-> "map_window", window |-> w]
ResizeWindow(w, width, height) ==
    [op |-> "resize_window", window |-> w, width |-> width, height |-> height]
Assign(how, w) == [op |-> how, window |-> w]

----------------------------------------------------------------------------
(* core/rectangle.rs.  i32 is I32Min..I32Max and u32 is 0..U32Max, IntBits *)
(* bits wide.  An i32 addition that overflows panics in a build with       *)
(* overflow checks ("debug") and wraps in one without ("release").         *)

I32Min == -(2 ^ (IntBits - 1))
I32Max == 2 ^ (IntBits - 1) - 1
U32Max == 2 ^ IntBits - 1
Builds == {"debug", "release"}

\* `v as i32` for a u32 v: the same bits read as two's complement
AsI32(v) == IF v > I32Max THEN v - 2 ^ IntBits ELSE v

\* `a + b` on i32
AddI32(a, b, bld) ==
    LET n == a + b
    IN  IF n >= I32Min /\ n <= I32Max
        THEN [panic |-> FALSE, value |-> n]
        ELSE IF bld = "debug"
             THEN [panic |-> TRUE, value |-> 0]
             ELSE [panic |-> FALSE,
                   value |-> ((n - I32Min) % (2 ^ IntBits)) + I32Min]

RectangleNew(x, y, width, height) ==
    [x |-> x, y |-> y, width |-> width, height |-> height]

\* rectangle.rs:44  Rectangle::new(10, 10, 20, 10)
DocRectangle == RectangleNew(10, 10, 20, 10)

RectangleRight(r, bld) == AddI32(r.x, AsI32(r.width), bld)

RectangleBottom(r, bld) == AddI32(r.y, AsI32(r.height), bld)

\* what a call of is_inside can do
Pending == [state |-> "pending", value |-> FALSE]
Panicked == [state |-> "panicked", value |-> FALSE]
Returned(b) == [state |-> "returned", value |-> b]

\* `&&` evaluates right() only when x >= self.x, and bottom() only when y >= self.y
RectangleIsInside(r, x, y, bld) ==
    LET right == RectangleRight(r, bld)
        bottom == RectangleBottom(r, bld)
    IN  IF \/ x >= r.x /\ right.panic
           \/ y >= r.y /\ bottom.panic
        THEN Panicked
        ELSE LET horizontal == x >= r.x /\ x <= right.value
                 vertical == y >= r.y /\ y <= bottom.value
             IN  Returned(horizontal /\ vertical)

----------------------------------------------------------------------------
(* lib.rs: run *)

\* mutant: the window is added first and sized afterwards
Match_AddThenResize(ws, e, reply) ==
    CASE e.kind = "WindowCreated" ->
            IF ~XcbIsWindow(reply)
            THEN [workspace |-> ws, effects |-> <<>>, attrs |-> reply, running |-> TRUE]
            ELSE [workspace |-> WorkspaceAdd(ws, e.window),
                  effects   |-> <<Assign("workspace.add", e.window),
                                  ResizeWindow(e.window, ResizeWidth, ResizeHeight)>>,
                  attrs     |-> reply,
                  running   |-> TRUE]
      [] e.kind = "WindowClosed" ->
            [workspace |-> WorkspaceRemove(ws, e.window),
             effects   |-> <<Assign("workspace.remove", e.window)>>,
             attrs     |-> NoQuery,
             running   |-> TRUE]
      [] OTHER ->
            [workspace |-> ws, effects |-> <<>>, attrs |-> NoQuery, running |-> TRUE]

\* mutant: the is_window check is missing; every created window is managed
Match_NoIsWindowCheck(ws, e, reply) ==
    CASE e.kind = "WindowCreated" ->
            [workspace |-> WorkspaceAdd(ws, e.window),
             effects   |-> <<ResizeWindow(e.window, ResizeWidth, ResizeHeight),
                             Assign("workspace.add", e.window)>>,
             attrs     |-> reply,
             running   |-> TRUE]
      [] e.kind = "WindowClosed" ->
            [workspace |-> WorkspaceRemove(ws, e.window),
             effects   |-> <<Assign("workspace.remove", e.window)>>,
             attrs     |-> NoQuery,
             running   |-> TRUE]
      [] OTHER ->
            [workspace |-> ws, effects |-> <<>>, attrs |-> NoQuery, running |-> TRUE]

\* mutant: a hidden window is dropped from the workspace like a closed one
Match_HidRemoves(ws, e, reply) ==
    CASE e.kind = "WindowCreated" ->
            IF ~XcbIsWindow(reply)
            THEN [workspace |-> ws, effects |-> <<>>, attrs |-> reply, running |-> TRUE]
            ELSE [workspace |-> WorkspaceAdd(ws, e.window),
                  effects   |-> <<ResizeWindow(e.window, ResizeWidth, ResizeHeight),
                                  Assign("workspace.add", e.window)>>,
                  attrs     |-> reply,
             running   |-> TRUE]
      [] e.kind \in {"WindowClosed", "WindowHid"} ->
            [workspace |-> WorkspaceRemove(ws, e.window),
             effects   |-> <<Assign("workspace.remove", e.window)>>,
             attrs     |-> NoQuery,
             running   |-> TRUE]
      [] OTHER ->
            [workspace |-> ws, effects |-> <<>>, attrs |-> NoQuery, running |-> TRUE]

\* mutant: the Unknown arm returns an error from run instead of falling to `_ => ()`
Match_UnknownBails(ws, e, reply) ==
    CASE e.kind = "WindowCreated" ->
            IF ~XcbIsWindow(reply)
            THEN [workspace |-> ws, effects |-> <<>>, attrs |-> reply, running |-> TRUE]
            ELSE [workspace |-> WorkspaceAdd(ws, e.window),
                  effects   |-> <<ResizeWindow(e.window, ResizeWidth, ResizeHeight),
                                  Assign("workspace.add", e.window)>>,
                  attrs     |-> reply,
                  running   |-> TRUE]
      [] e.kind = "WindowClosed" ->
            [workspace |-> WorkspaceRemove(ws, e.window),
             effects   |-> <<Assign("workspace.remove", e.window)>>,
             attrs     |-> NoQuery,
             running   |-> TRUE]
      [] e.kind = "Unknown" ->
            [workspace |-> ws, effects |-> <<>>, attrs |-> NoQuery, running |-> FALSE]
      [] OTHER ->
            [workspace |-> ws, effects |-> <<>>, attrs |-> NoQuery, running |-> TRUE]

\* `match xcb.event() { .. }` for the event e: the next workspace, what the arm
\* did in program order, the is_window reply it used, and whether the loop
\* goes on to its next iteration (no arm breaks, returns or uses `?`)
Match(ws, e, reply) ==
    CASE e.kind = "WindowCreated" ->
            IF ~XcbIsWindow(reply)
            THEN [workspace |-> ws, effects |-> <<>>, attrs |-> reply, running |-> TRUE]
            ELSE [workspace |-> WorkspaceAdd(ws, e.window),
                  effects   |-> <<ResizeWindow(e.window, ResizeWidth, ResizeHeight),
                                  Assign("workspace.add", e.window)>>,
                  attrs     |-> reply,
             running   |-> TRUE]
      [] e.kind = "WindowClosed" ->
            [workspace |-> WorkspaceRemove(ws, e.window),
             effects   |-> <<Assign("workspace.remove", e.window)>>,
             attrs     |-> NoQuery,
             running   |-> TRUE]
      [] OTHER ->
            [workspace |-> ws, effects |-> <<>>, attrs |-> NoQuery, running |-> TRUE]

\* the backend commands Xcb::event itself issues while translating raw
XcbCommands(raw) ==
    IF raw.some /\ raw.response_type = "MAP_REQUEST"
    THEN <<MapWindow(raw.window)>>
    ELSE <<>>

\* one iteration of `loop { match xcb.event() { .. } }`: the next workspace,
\* what the iteration did in program order, and the is_window reply it used
RunMatch(ws, raw, reply) ==
    LET m == Match(ws, XcbEvent(raw), reply)
    IN  [workspace |-> m.workspace,
         effects   |-> XcbCommands(raw) \o m.effects,
         attrs     |-> m.attrs,
         running   |-> m.running]

Iterate(raw, reply) ==
    /\ running
    /\ LET r == RunMatch(workspace, raw, reply)
       IN  /\ workspace' = r.workspace
           /\ running' = r.running
           /\ effects' = r.effects
           /\ attrs' = r.attrs
           /\ history' = Append(history, [event |-> XcbEvent(raw), attrs |-> r.attrs])
    /\ prev' = workspace
    /\ event' = XcbEvent(raw)
    /\ UNCHANGED <<call, geometry>>

\* the loop is followed for MaxEvents events
MapRequest(w, reply) ==
    /\ Len(history) < MaxEvents
    /\ Iterate(RawEvent("MAP_REQUEST", w), reply)

DestroyNotify(w) ==
    /\ Len(history) < MaxEvents
    /\ Iterate(RawEvent("DESTROY_NOTIFY", w), NoQuery)

OtherEvent(w) ==
    /\ Len(history) < MaxEvents
    /\ Iterate(RawEvent("OTHER", w), NoQuery)

NoEvent ==
    /\ Len(history) < MaxEvents
    /\ Iterate(NoRawEvent, NoQuery)

NoCall == [op |-> "none"]

\* no is_inside call is under way: the doc-test call of rectangle.rs:45, not made
NoGeometry ==
    /\ rectangle = DocRectangle
    /\ point = [x |-> 12, y |-> 15]
    /\ build = "release"
    /\ inside = Pending

Init ==
    /\ workspace = WorkspaceNew(MainId, "Main", None)
    /\ prev = workspace
    /\ event = Unknown
    /\ attrs = NoQuery
    /\ effects = <<>>
    /\ history = <<>>
    /\ call = NoCall
    /\ running = TRUE
    /\ NoGeometry

Next ==
    \/ \E w \in Windows, reply \in AttrReplies : MapRequest(w, reply)
    \/ \E w \in Windows : DestroyNotify(w)
    \/ \E w \in Windows : OtherEvent(w)
    \/ NoEvent

Spec == Init /\ [][Next]_vars

----------------------------------------------------------------------------
(* EventSpec: the match of the run loop applied to every Event the Backend *)
(* contract can deliver (backend/event.rs), on every workspace of at most  *)
(* MaxSize windows.  Xcb::event itself delivers only WindowCreated,        *)
(* WindowClosed and Unknown.                                               *)

OptionalWindows == {None} \cup {Some(w) : w \in Windows}

\* the variants of Event<Window> that run leaves to the `_ => ()` arm
OtherEvents ==
    {[kind |-> "BackendChanged"], [kind |-> "ButtonReleased"], Unknown}
    \cup {[kind |-> k, window |-> w] :
            k \in {"WindowHid", "WindowRevealed", "KeyPressed"}, w \in Windows}
    \cup {[kind |-> "WindowChangeRequest", window |-> w, rectangle |-> DocRectangle] :
            w \in Windows}
    \cup {[kind |-> k, over |-> o] :
            k \in {"MouseEnter", "MouseLeave"}, o \in OptionalWindows}
    \cup {[kind |-> "ButtonPressed", window |-> w, subwindow |-> o] :
            w \in Windows, o \in OptionalWindows}

Dispatch(e, reply) ==
    /\ running
    /\ LET m == Match(workspace, e, reply)
       IN  /\ workspace' = m.workspace
           /\ running' = m.running
           /\ effects' = m.effects
           /\ attrs' = m.attrs
    /\ prev' = workspace
    /\ event' = e
    /\ UNCHANGED <<history, call, geometry>>

DeliverCreated(w, reply) ==
    /\ WorkspaceLen(workspace) < MaxSize
    /\ Dispatch([kind |-> "WindowCreated", window |-> w], reply)

DeliverClosed(w) ==
    /\ Dispatch([kind |-> "WindowClosed", window |-> w], NoQuery)

DeliverOther(e) ==
    /\ Dispatch(e, NoQuery)

EventNext ==
    \/ \E w \in Windows, reply \in AttrReplies : DeliverCreated(w, reply)
    \/ \E w \in Windows : DeliverClosed(w)
    \/ \E e \in OtherEvents : DeliverOther(e)

EventSpec == Init /\ [][EventNext]_vars

----------------------------------------------------------------------------
(* RectangleSpec: one call of Rectangle::is_inside, in either build, on the *)
(* doc-test rectangle and on rectangles whose corner and size sit at the    *)
(* ends of the integer ranges                                               *)

Corners == {-1, 0, I32Max}
Sizes == {0, 2, I32Max + 1, U32Max}
Rectangles ==
    {DocRectangle} \cup
    {RectangleNew(x, y, w, h) : x \in Corners, y \in Corners, w \in Sizes, h \in Sizes}
Coords == {I32Min, -2, -1, 0, 1, 2, 3, 12, 15, 20, 21, I32Max}

RectangleInit ==
    /\ workspace = WorkspaceNew(MainId, "Main", None)
    /\ prev = workspace
    /\ event = Unknown
    /\ attrs = NoQuery
    /\ effects = <<>>
    /\ history = <<>>
    /\ call = NoCall
    /\ running = TRUE
    /\ rectangle \in Rectangles
    /\ point \in [x : Coords, y : Coords]
    /\ build \in Builds
    /\ inside = Pending

IsInside ==
    /\ inside = Pending
    /\ inside' = RectangleIsInside(rectangle, point.x, point.y, build)
    /\ UNCHANGED <<workspace, prev, event, attrs, effects, history, call, running,
                   rectangle, point, build>>

RectangleNext == IsInside

RectangleSpec == RectangleInit /\ [][RectangleNext]_vars

----------------------------------------------------------------------------
(* StackSpec: the Stack and Workspace operations, one call per step, on *)
(* every stack of at most MaxSize elements and on the doc-test stack    *)

SeqsUpTo(n) == UNION {[1..k -> Elems] : k \in 0..n}

\* stack.rs:123  Stack::new(1, vec![2,3,4], vec![5,6,7])
DocStack == StackNew(1, <<2, 3, 4>>, <<5, 6, 7>>)
DocElems == {1, 2, 3, 4, 5, 6, 7}

\* stack.rs:124  |x| x % 2 == 0
Even == [x \in DocElems |-> x % 2 = 0]

InitStacks ==
    {s \in [focus : Elems, up : SeqsUpTo(MaxSize - 1), down : SeqsUpTo(MaxSize - 1)] :
        StackLen(s) <= MaxSize}
    \cup {DocStack}

Preds == [Elems -> BOOLEAN] \cup {Even}

StackElems(s) == {StackIntegrate(s)[i] : i \in 1..StackLen(s)}

\* the calls other than filter are applied to the bounded stacks only
Bounded(ws) ==
    /\ IsSome(ws.stack)
    /\ StackElems(Unwrap(ws.stack)) \subseteq Elems
    /\ StackLen(Unwrap(ws.stack)) <= MaxSize

\* the stacks a closure handed to workspace.map / map_option can be given
Held(ws) == {ws.stack[i] : i \in 1..Len(ws.stack)}

Apply(c, ws) ==
    /\ workspace' = ws
    /\ prev' = workspace
    /\ call' = c
    /\ UNCHANGED <<event, attrs, effects, history, running, geometry>>

CallAdd(t) ==
    /\ Bounded(workspace)
    /\ StackLen(Unwrap(workspace.stack)) < MaxSize
    /\ Apply([op |-> "add", t |-> t],
             WorkspaceMap(workspace, [s \in Held(workspace) |-> StackAdd(s, t)]))

CallFilter(f) ==
    /\ IsSome(workspace.stack)
    /\ StackElems(Unwrap(workspace.stack)) \subseteq DOMAIN f
    /\ Apply([op |-> "filter", f |-> f],
             WorkspaceMapOption(workspace, [s \in Held(workspace) |-> StackFilter(s, f)]))

CallFocusUp ==
    /\ Bounded(workspace)
    /\ Apply([op |-> "focus_up"], WorkspaceMap(workspace, [s \in Held(workspace) |-> StackFocusUp(s)]))

CallFocusDown ==
    /\ Bounded(workspace)
    /\ Apply([op |-> "focus_down"], WorkspaceMap(workspace, [s \in Held(workspace) |-> StackFocusDown(s)]))

CallSwapUp ==
    /\ Bounded(workspace)
    /\ Apply([op |-> "swap_up"], WorkspaceMap(workspace, [s \in Held(workspace) |-> StackSwapUp(s)]))

CallSwapDown ==
    /\ Bounded(workspace)
    /\ Apply([op |-> "swap_down"], WorkspaceMap(workspace, [s \in Held(workspace) |-> StackSwapDown(s)]))

CallSwapMaster ==
    /\ Bounded(workspace)
    /\ Apply([op |-> "swap_master"], WorkspaceMap(workspace, [s \in Held(workspace) |-> StackSwapMaster(s)]))

CallReverse ==
    /\ Bounded(workspace)
    /\ Apply([op |-> "reverse"], WorkspaceMap(workspace, [s \in Held(workspace) |-> StackReverse(s)]))

CallWorkspaceAdd(w) ==
    /\ workspace.stack = None \/ Bounded(workspace)
    /\ WorkspaceLen(workspace) < MaxSize
    /\ Apply([op |-> "Workspace.add", window |-> w], WorkspaceAdd(workspace, w))

CallWorkspaceRemove(w) ==
    /\ workspace.stack = None \/ Bounded(workspace)
    /\ Apply([op |-> "Workspace.remove", window |-> w], WorkspaceRemove(workspace, w))

StackInit ==
    /\ workspace \in {WorkspaceNew(MainId, "Main", o) :
                        o \in {None} \cup {Some(s) : s \in InitStacks}}
    /\ prev = workspace
    /\ event = Unknown
    /\ attrs = NoQuery
    /\ effects = <<>>
    /\ history = <<>>
    /\ call = NoCall
    /\ running = TRUE
    /\ NoGeometry

StackNext ==
    \/ \E t \in Elems : CallAdd(t)
    \/ \E f \in Preds : CallFilter(f)
    \/ CallFocusUp
    \/ CallFocusDown
    \/ CallSwapUp
    \/ CallSwapDown
    \/ CallSwapMaster
    \/ CallReverse
    \/ \E w \in Elems : CallWorkspaceAdd(w)
    \/ \E w \in Elems : CallWorkspaceRemove(w)

StackSpec == StackInit /\ [][StackNext]_vars

----------------------------------------------------------------------------
(* WorkspaceSpec: any sequence of Workspace::add and Workspace::remove on *)
(* the Workspace created with stack None                                  *)

WorkspaceNext ==
    \/ \E w \in Elems : CallWorkspaceAdd(w)
    \/ \E w \in Elems : CallWorkspaceRemove(w)

WorkspaceSpec == Init /\ [][WorkspaceNext]_vars

----------------------------------------------------------------------------
(* Properties of the run loop, checked under Spec *)

NoDup(v) == \A i, j \in 1..Len(v) : i # j => v[i] # v[j]

Count(v, t) == Cardinality({i \in 1..Len(v) : v[i] = t})

Created(h, w) ==
    /\ h.event = [kind |-> "WindowCreated", window |-> w]
    /\ XcbIsWindow(h.attrs)

Closed(h, w) == h.event = [kind |-> "WindowClosed", window |-> w]

\* C1: in every state the run loop reaches from the empty Workspace, under any
\* sequence of WindowCreated/WindowClosed events (repeated WindowCreated for one
\* id included), no window occurs twice across up, focus and down.
C1_NoDuplicates == NoDup(WorkspaceWindows(workspace))

\* C2: after the loop has processed WindowCreated(w) with is_window(w) true,
\* the Workspace contains w and w is the focus, whatever it held before.
C2_CreatedIsFocused ==
    (event.kind = "WindowCreated" /\ XcbIsWindow(attrs)) =>
        /\ WorkspaceContains(workspace, event.window)
        /\ WorkspacePeek(workspace) = Some(event.window)

C2_Witness ==
    /\ event.kind = "WindowCreated"
    /\ XcbIsWindow(attrs)
    /\ WorkspaceLen(prev) >= 2
    /\ WorkspacePeek(prev) # Some(event.window)
    /\ workspace # prev

\* C3: after the loop has processed WindowClosed(w), the Workspace does not
\* contain w and w is not in windows(), also when w occurred more than once.
C3_ClosedIsGone ==
    event.kind = "WindowClosed" =>
        /\ ~WorkspaceContains(workspace, event.window)
        /\ \A i \in 1..Len(WorkspaceWindows(workspace)) :
              WorkspaceWindows(workspace)[i] # event.window

C3_Witness ==
    /\ event.kind = "WindowClosed"
    /\ Count(WorkspaceWindows(prev), event.window) >= 2
    /\ workspace # prev

\* C4: from the empty Workspace, for distinct accepted windows a and b:
\* WindowCreated(a) gives windows() = [a] and peek() = Some(a); then
\* WindowCreated(b) gives windows() = [b, a] with b focused; then
\* WindowClosed(b) gives windows() = [a] and peek() = Some(a).
C4_Scenario ==
    \A a, b \in Windows :
        a # b =>
            /\ (Len(history) = 1 /\ Created(history[1], a)) =>
                  /\ WorkspaceWindows(workspace) = <<a>>
                  /\ WorkspacePeek(workspace) = Some(a)
            /\ (Len(history) = 2 /\ Created(history[1], a) /\ Created(history[2], b)) =>
                  /\ WorkspaceWindows(workspace) = <<b, a>>
                  /\ WorkspacePeek(workspace) = Some(b)
            /\ (Len(history) = 3 /\ Created(history[1], a) /\ Created(history[2], b)
                    /\ Closed(history[3], b)) =>
                  /\ WorkspaceWindows(workspace) = <<a>>
                  /\ WorkspacePeek(workspace) = Some(a)

C4_Witness ==
    \E a, b \in Windows :
        /\ a # b
        /\ Len(history) = 3
        /\ Created(history[1], a)
        /\ Created(history[2], b)
        /\ Closed(history[3], b)
        /\ WorkspaceWindows(prev) = <<b, a>>
        /\ WorkspaceWindows(workspace) = <<a>>

\* the resize_window commands among the commands c
Resizes(c) == SelectSeq(c, LAMBDA x : x.op = "resize_window")

\* C21: WindowCreated(w) for which is_window(w) is false (an override-redirect
\* window) leaves the Workspace unchanged and issues no resize_window for w; a
\* window is added only when is_window answers true.
C21_OverrideRedirectIgnored ==
    /\ (event.kind = "WindowCreated" /\ attrs.ok /\ attrs.override_redirect) =>
          /\ workspace = prev
          /\ Resizes(effects) = <<>>
    /\ (event.kind = "WindowCreated" /\ workspace # prev) => XcbIsWindow(attrs)

C21_Witness ==
    /\ event.kind = "WindowCreated"
    /\ attrs.ok
    /\ attrs.override_redirect
    /\ WorkspaceLen(prev) >= 1
    /\ ~WorkspaceContains(workspace, event.window)

\* C22: when the classification query for a newly created window fails, the
\* window is treated as classification-unknown and skipped: the run loop does
\* not add it to the Workspace.
C22_FailedQuerySkipped ==
    (event.kind = "WindowCreated" /\ ~attrs.ok) =>
        /\ workspace = prev
        /\ Resizes(effects) = <<>>

\* C25: after any sequence of backend events from the empty Workspace, a window
\* w is a member of windows() if and only if some WindowCreated(w) accepted by
\* is_window has been processed and no WindowClosed(w) has been processed after
\* it: no window is lost or invented.
C25_MembersAreOpenWindows ==
    \A w \in Windows :
        VecContains(WorkspaceWindows(workspace), w) <=>
            \E i \in 1..Len(history) :
                /\ Created(history[i], w)
                /\ \A j \in (i + 1)..Len(history) : ~Closed(history[j], w)

C25_Witness ==
    \E a, b \in Windows :
        /\ a # b
        /\ Len(history) = 3
        /\ Created(history[1], a)
        /\ Created(history[2], b)
        /\ Closed(history[3], a)
        /\ WorkspaceWindows(workspace) = <<b>>

\* C29: for every WindowCreated(w) accepted by is_window the run loop issues
\* resize_window(w, ..) before it replaces the Workspace by workspace.add(w),
\* exactly once for that event; no resize_window is issued for any other event.
C29_ResizeBeforeAdd ==
    IF event.kind = "WindowCreated" /\ XcbIsWindow(attrs)
    THEN /\ Len(Resizes(effects)) = 1
         /\ Resizes(effects)[1].window = event.window
         /\ \E i, j \in 1..Len(effects) :
               /\ i < j
               /\ effects[i].op = "resize_window"
               /\ effects[j] = Assign("workspace.add", event.window)
         /\ workspace = WorkspaceAdd(prev, event.window)
    ELSE Resizes(effects) = <<>>

C29_Witness ==
    /\ event.kind = "WindowCreated"
    /\ XcbIsWindow(attrs)
    /\ WorkspaceLen(prev) >= 1
    /\ Len(Resizes(effects)) = 1
    /\ WorkspacePeek(workspace) = Some(event.window)

----------------------------------------------------------------------------
(* Properties of the Stack operations, checked under StackSpec.  `self` is *)
(* the stack a call was applied to, `result` what the call returned.       *)

self == Unwrap(prev.stack)
result == Unwrap(workspace.stack)

\* v with the elements failing f deleted, the others in their order
Matching(v, f) == SelectSeq(v, LAMBDA x : f[x])

\* C5: add(t) returns focus = t, up = the old up, down = the old down with
\* the old focus appended at its end; len() grows by exactly 1 and every
\* element contained before is still contained, plus t.
C5_Add ==
    call.op = "add" =>
        /\ result.focus = call.t
        /\ result.up = self.up
        /\ result.down = Append(self.down, self.focus)
        /\ StackLen(result) = StackLen(self) + 1
        /\ \A x \in Elems : StackContains(self, x) => StackContains(result, x)
        /\ StackContains(result, call.t)

C5_Witness ==
    /\ call.op = "add"
    /\ self.up # <<>>
    /\ Len(self.down) >= 1
    /\ self.focus # call.t
    /\ self.down[1] # self.focus

\* C6: when filter returns Some(r), r.integrate() is s.integrate() with exactly
\* the elements failing the predicate deleted, in the same relative order, and
\* r.len() is the number of matching elements; the doc-test stack filtered by
\* evenness integrates to [4, 2, 6].
C6_FilterOrder ==
    (call.op = "filter" /\ IsSome(workspace.stack)) =>
        /\ StackIntegrate(result) = Matching(StackIntegrate(self), call.f)
        /\ StackLen(result) = Len(Matching(StackIntegrate(self), call.f))
        /\ (self = DocStack /\ call.f = Even) =>
              StackIntegrate(result) = <<4, 2, 6>>

C6_Witness ==
    /\ call.op = "filter"
    /\ IsSome(workspace.stack)
    /\ StackLen(result) < StackLen(self)
    /\ Len(result.up) >= 2
    /\ result.up[1] # result.up[2]

\* C7 as claimed: the doc-test stack filtered by "even" has focus = 4,
\* up = [2] and down = [6].
C7_Original ==
    (call.op = "filter" /\ self = DocStack /\ call.f = Even) =>
        workspace.stack = Some(StackNew(4, <<2>>, <<6>>))

\* C7 as amended: the doc-test stack filtered by "even" has focus = 6,
\* up = [2, 4] and down = [] (it integrates to [4, 2, 6]).
C7_DocFilter ==
    (call.op = "filter" /\ self = DocStack /\ call.f = Even) =>
        workspace.stack = Some(StackNew(6, <<2, 4>>, <<>>))

C7_Witness ==
    /\ call.op = "filter"
    /\ self = DocStack
    /\ call.f = Even
    /\ IsSome(workspace.stack)

\* C8: filter tie-break.  If an element of [focus] ++ down matches, the new
\* focus is the first such element, the new down the remaining matches of that
\* group in order, the new up the matching elements of up in their order.
\* Otherwise, if an element of up matches, the new focus is the first matching
\* element of up, the new up the remaining matches of up, the new down empty.
C8_TieBreak ==
    call.op = "filter" =>
        LET below == Matching(<<self.focus>> \o self.down, call.f)
            above == Matching(self.up, call.f)
        IN  /\ below # <<>> =>
                  /\ IsSome(workspace.stack)
                  /\ result.focus = Head(below)
                  /\ result.down = Tail(below)
                  /\ result.up = above
            /\ (below = <<>> /\ above # <<>>) =>
                  /\ IsSome(workspace.stack)
                  /\ result.focus = Head(above)
                  /\ result.up = Tail(above)
                  /\ result.down = <<>>

C8_Witness ==
    /\ call.op = "filter"
    /\ Matching(<<self.focus>> \o self.down, call.f) = <<>>
    /\ self.down # <<>>
    /\ Len(Matching(self.up, call.f)) >= 2
    /\ Matching(self.up, call.f)[1] # Matching(self.up, call.f)[2]
    /\ result.focus = self.up[1]

\* C9: filter returns None if and only if no element of focus, up or down
\* satisfies the predicate; otherwise it returns Some of a stack of at least
\* one element, each of them an element of the input that satisfies the
\* predicate.  Through Workspace.remove, the result None makes the new
\* Workspace's stack None.
C9_NoneIffNoMatch ==
    /\ call.op = "filter" =>
          /\ workspace.stack = None <=> \A x \in StackElems(self) : ~call.f[x]
          /\ IsSome(workspace.stack) =>
                /\ StackLen(result) >= 1
                /\ Len(workspace.stack) = 1
                /\ \A x \in StackElems(result) : x \in StackElems(self) /\ call.f[x]
    /\ (call.op = "Workspace.remove" /\ IsSome(prev.stack)) =>
          (workspace.stack = None <=> StackElems(self) = {call.window})

C9_Witness ==
    /\ call.op = "Workspace.remove"
    /\ IsSome(prev.stack)
    /\ self.up # <<>>
    /\ self.down # <<>>
    /\ workspace.stack = None

\* C10: focus navigation does not reorder windows: focus_up and focus_down
\* leave integrate() unchanged, also when they wrap around (up empty for
\* focus_up, down empty for focus_down).
C10_FocusKeepsOrder ==
    call.op \in {"focus_up", "focus_down"} =>
        StackIntegrate(result) = StackIntegrate(self)

C10_Witness ==
    /\ call.op = "focus_up"
    /\ self.up = <<>>
    /\ Len(self.down) >= 2
    /\ self.down[Len(self.down)] # self.focus
    /\ result.focus = self.down[Len(self.down)]

\* C11: focus_up and focus_down are mutual inverses on every stack, as whole
\* Stack values: s.focus_up().focus_down() = s and s.focus_down().focus_up() = s,
\* also with up empty, down empty, or a single element.
C11_FocusInverse ==
    /\ call.op = "focus_up" => StackFocusDown(result) = self
    /\ call.op = "focus_down" => StackFocusUp(result) = self

C11_Witness ==
    /\ call.op = "focus_down"
    /\ self.down = <<>>
    /\ Len(self.up) >= 2
    /\ result # self
    /\ StackFocusUp(result) = self

\* 0-based index of the focus in integrate()
FocusIndex(s) == Len(s.up)

\* C12: for a duplicate-free stack with integrate() = [e0..e(n-1)] and the focus
\* at index i, focus_up makes e((i-1) mod n) the focus and focus_down makes
\* e((i+1) mod n) the focus; with up empty (and down not), focus_up makes the
\* last element of down the focus and leaves down empty.
C12_FocusMoves ==
    (call.op \in {"focus_up", "focus_down"} /\ NoDup(StackIntegrate(self))) =>
        LET e == StackIntegrate(self)
            n == Len(e)
            i == FocusIndex(self)
            j == IF call.op = "focus_up" THEN (i - 1) % n ELSE (i + 1) % n
        IN  /\ result.focus = e[j + 1]
            /\ FocusIndex(result) = j
            /\ (call.op = "focus_up" /\ self.up = <<>> /\ self.down # <<>>) =>
                  /\ result.focus = self.down[Len(self.down)]
                  /\ result.down = <<>>

C12_Witness ==
    /\ call.op = "focus_up"
    /\ NoDup(StackIntegrate(self))
    /\ self.up = <<>>
    /\ Len(self.down) >= 2
    /\ result.down = <<>>

\* v without its element at 0-based index i
Without(v, i) == SubSeq(v, 1, i) \o SubSeq(v, i + 2, Len(v))

\* v with its elements at 0-based indices i and j exchanged
Exchanged(v, i, j) ==
    [k \in 1..Len(v) |-> IF k = i + 1 THEN v[j + 1]
                         ELSE IF k = j + 1 THEN v[i + 1]
                         ELSE v[k]]

\* C13 as claimed: swap_master puts the focus first in integrate() with up = []
\* and the focus unchanged, and integrate() with the focus deleted is the same
\* before and after.  Stated on the duplicate-free stacks, where "the focus"
\* names one position of integrate().
C13_Original ==
    (call.op = "swap_master" /\ NoDup(StackIntegrate(self))) =>
        /\ result.up = <<>>
        /\ result.focus = self.focus
        /\ Without(StackIntegrate(result), FocusIndex(result))
              = Without(StackIntegrate(self), FocusIndex(self))

\* C13 as amended: swap_master puts the focus first in integrate() with up = []
\* and the focus unchanged; the old master (the first element of integrate())
\* takes the place the focus had, and every other element keeps its index.
C13_SwapMaster ==
    call.op = "swap_master" =>
        /\ result.up = <<>>
        /\ result.focus = self.focus
        /\ StackIntegrate(result)
              = Exchanged(StackIntegrate(self), 0, FocusIndex(self))

C13_Witness ==
    /\ call.op = "swap_master"
    /\ Len(self.up) >= 2
    /\ self.down # <<>>
    /\ NoDup(<<self.focus>> \o self.up)
    /\ result.down[Len(self.up)] = self.up[Len(self.up)]

\* C14: swap_master is a no-op when the focus is already master (up empty),
\* and it is idempotent on every stack.
C14_SwapMasterNoOp ==
    call.op = "swap_master" =>
        /\ self.up = <<>> => result = self
        /\ StackSwapMaster(result) = result

C14_Witness ==
    /\ call.op = "swap_master"
    /\ self.up = <<>>
    /\ Len(self.down) >= 2
    /\ self.down[1] # self.down[2]

\* C15: swap_up with up not empty keeps the focus value; new up = old up
\* without up[0], new down = [old up[0]] ++ old down; in integrate() the focus
\* and old up[0] trade places and every other element keeps its index.
C15_SwapUp ==
    (call.op = "swap_up" /\ self.up # <<>>) =>
        /\ result.focus = self.focus
        /\ result.up = Tail(self.up)
        /\ result.down = <<Head(self.up)>> \o self.down
        /\ StackIntegrate(result)
              = Exchanged(StackIntegrate(self), FocusIndex(self), FocusIndex(self) - 1)

C15_Witness ==
    /\ call.op = "swap_up"
    /\ Len(self.up) >= 2
    /\ self.down # <<>>
    /\ self.up[1] # self.focus
    /\ self.up[1] # self.down[1]

\* C16 as claimed: swap_up with up empty makes the focus the first element of
\* integrate(), the remaining elements below it.  Stated on the duplicate-free
\* stacks, where "the focus" names one position of integrate().
C16_Original ==
    (call.op = "swap_up" /\ self.up = <<>> /\ NoDup(StackIntegrate(self))) =>
        /\ result.focus = self.focus
        /\ FocusIndex(result) = 0
        /\ Len(result.down) = Len(self.down)

\* C16 as amended: swap_up with up empty makes the focus the last element of
\* integrate(), the remaining elements above it in their old order:
\* up = reverse(old down), down = [], integrate() = old down ++ [focus].
C16_SwapUpWrap ==
    (call.op = "swap_up" /\ self.up = <<>>) =>
        /\ result.focus = self.focus
        /\ result.down = <<>>
        /\ result.up = [i \in 1..Len(self.down) |-> self.down[Len(self.down) + 1 - i]]
        /\ StackIntegrate(result) = self.down \o <<self.focus>>
        /\ FocusIndex(result) = StackLen(self) - 1

C16_Witness ==
    /\ call.op = "swap_up"
    /\ self.up = <<>>
    /\ Len(self.down) >= 2
    /\ self.down[1] # self.down[2]
    /\ result.down = <<>>

\* C17: reverse is an involution, s.reverse().reverse() = s; it exchanges up
\* and down verbatim and leaves the focus unchanged.
C17_Reverse ==
    call.op = "reverse" =>
        /\ StackReverse(result) = self
        /\ result.focus = self.focus
        /\ result.up = self.down
        /\ result.down = self.up

C17_Witness ==
    /\ call.op = "reverse"
    /\ Len(self.up) >= 2
    /\ self.up[1] # self.up[2]
    /\ self.down # self.up
    /\ result # self

\* C19: focus after removal, for a duplicate-free Workspace containing w and
\* at least one other window: if w is not the focus, remove(w) leaves the focus
\* unchanged; if w is the focus, the new focus is down[0] when down is not
\* empty, and otherwise up[0].
C19_FocusAfterRemove ==
    (/\ call.op = "Workspace.remove"
     /\ IsSome(prev.stack)
     /\ NoDup(WorkspaceWindows(prev))
     /\ WorkspaceContains(prev, call.window)
     /\ WorkspaceLen(prev) >= 2) =>
        /\ IsSome(workspace.stack)
        /\ self.focus # call.window => result.focus = self.focus
        /\ self.focus = call.window =>
              result.focus = IF self.down # <<>> THEN self.down[1] ELSE self.up[1]

C19_Witness ==
    /\ call.op = "Workspace.remove"
    /\ IsSome(prev.stack)
    /\ NoDup(WorkspaceWindows(prev))
    /\ self.focus = call.window
    /\ self.down = <<>>
    /\ Len(self.up) >= 2
    /\ WorkspacePeek(workspace) = Some(self.up[1])

\* C26: removing a window that is not managed is a no-op: if the Workspace does
\* not contain w, Workspace.remove(w), and so the run loop on WindowClosed(w),
\* returns a Workspace with the same id, tag, focus, up and down; an empty
\* Workspace stays empty.
C26_RemoveAbsentNoOp ==
    (call.op = "Workspace.remove" /\ ~WorkspaceContains(prev, call.window)) =>
        /\ workspace.id = prev.id
        /\ workspace.tag = prev.tag
        /\ workspace.stack = prev.stack
        /\ prev.stack = None => WorkspaceIsEmpty(workspace)
        /\ Match(prev, [kind |-> "WindowClosed", window |-> call.window], NoQuery).workspace
              = prev

C26_Witness ==
    /\ call.op = "Workspace.remove"
    /\ ~WorkspaceContains(prev, call.window)
    /\ IsSome(prev.stack)
    /\ self.up # <<>>
    /\ self.down # <<>>
    /\ workspace = prev

\* the sequences a and b hold the same elements the same number of times
SameMultiset(a, b) ==
    /\ Len(a) = Len(b)
    /\ \A i \in 1..Len(a) : Count(a, a[i]) = Count(b, a[i])

\* C27: focus_up, focus_down, swap_up, swap_down, swap_master and reverse each
\* return a stack with exactly the multiset of elements of their input (same
\* len(), nothing dropped or duplicated); swap_up, swap_down, swap_master and
\* reverse keep the focus value; a duplicate-free stack stays duplicate-free.
C27_Permutes ==
    call.op \in {"focus_up", "focus_down", "swap_up", "swap_down", "swap_master",
                 "reverse"} =>
        /\ IsSome(workspace.stack)
        /\ SameMultiset(StackIntegrate(self), StackIntegrate(result))
        /\ StackLen(result) = StackLen(self)
        /\ call.op \in {"swap_up", "swap_down", "swap_master", "reverse"} =>
              result.focus = self.focus
        /\ NoDup(StackIntegrate(self)) => NoDup(StackIntegrate(result))

C27_Witness ==
    /\ call.op = "swap_master"
    /\ Len(self.up) >= 2
    /\ NoDup(StackIntegrate(self))
    /\ result # self
    /\ NoDup(StackIntegrate(result))

\* C28: swap_down is the mirror of swap_up (reverse, swap_up, reverse) and the two
\* are mutual inverses on whole Stack values: s.swap_up().swap_down() = s and
\* s.swap_down().swap_up() = s, also when up or down is empty.
C28_SwapInverse ==
    /\ call.op = "swap_up" =>
          /\ StackSwapDown(result) = self
          /\ result = StackReverse(StackSwapDown(StackReverse(self)))
    /\ call.op = "swap_down" =>
          /\ StackSwapUp(result) = self
          /\ result = StackReverse(StackSwapUp(StackReverse(self)))

C28_Witness ==
    /\ call.op = "swap_up"
    /\ self.up = <<>>
    /\ Len(self.down) >= 2
    /\ self.down[1] # self.down[2]
    /\ result # self
    /\ StackSwapDown(result) = self

----------------------------------------------------------------------------
(* Properties of Workspace::add / remove sequences, checked under WorkspaceSpec *)

\* C18: after any sequence of Workspace.add and Workspace.remove from the
\* Workspace created with stack None, stack = None exactly when the workspace
\* manages zero windows: len() = 0 iff is_empty() iff peek() = None iff
\* windows() is empty iff stack is None; a stored stack has len() >= 1.  Adding
\* one window to the empty workspace gives len() = 1, and removing it gives
\* len() = 0 and peek() = None.
C18_NoneIffEmpty ==
    /\ (workspace.stack = None) <=> (WorkspaceLen(workspace) = 0)
    /\ (workspace.stack = None) <=> WorkspaceIsEmpty(workspace)
    /\ (workspace.stack = None) <=> (WorkspacePeek(workspace) = None)
    /\ (workspace.stack = None) <=> (WorkspaceWindows(workspace) = <<>>)
    /\ (workspace.stack = None) <=> (\A w \in Elems : ~WorkspaceContains(workspace, w))
    /\ IsSome(workspace.stack) =>
          /\ StackLen(Unwrap(workspace.stack)) >= 1
          /\ ~StackIsEmpty(Unwrap(workspace.stack))
    /\ (call.op = "Workspace.add" /\ prev.stack = None) =>
          /\ WorkspaceLen(workspace) = 1
          /\ WorkspacePeek(workspace) = Some(call.window)
    /\ (call.op = "Workspace.remove" /\ WorkspaceWindows(prev) = <<call.window>>) =>
          /\ WorkspaceLen(workspace) = 0
          /\ WorkspacePeek(workspace) = None

C18_Witness ==
    /\ call.op = "Workspace.remove"
    /\ WorkspaceWindows(prev) = <<call.window>>
    /\ workspace.stack = None

----------------------------------------------------------------------------
(* Properties of the match of the run loop, checked under EventSpec *)

\* C20: every backend event other than WindowCreated and WindowClosed
\* (BackendChanged, WindowHid, WindowRevealed, WindowChangeRequest, MouseEnter,
\* MouseLeave, ButtonPressed, ButtonReleased, KeyPressed, Unknown) leaves the
\* Workspace (id, tag, focus, up, down) unchanged and triggers no backend command.
C20_OtherEventsNoOp ==
    event.kind \notin {"WindowCreated", "WindowClosed"} =>
        /\ workspace.id = prev.id
        /\ workspace.tag = prev.tag
        /\ workspace.stack = prev.stack
        /\ effects = <<>>

C20_Witness ==
    /\ event.kind = "WindowHid"
    /\ WorkspaceLen(prev) >= 2
    /\ WorkspaceContains(prev, event.window)
    /\ WorkspaceContains(workspace, event.window)

\* C23: the run loop never stops on an event: whatever event the backend
\* delivers and whatever Workspace has been reached (a WindowClosed for a window
\* that is not managed, the close of the last window and Unknown included), the
\* iteration completes with a Workspace and the loop takes the next event.
C23_NeverStops ==
    /\ running
    /\ workspace.stack = None \/ StackLen(Unwrap(workspace.stack)) >= 1
    /\ \A w \in Windows : ENABLED DeliverClosed(w)
    /\ \A e \in OtherEvents : ENABLED DeliverOther(e)
    /\ WorkspaceLen(workspace) < MaxSize =>
          \A w \in Windows, reply \in AttrReplies : ENABLED DeliverCreated(w, reply)

C23_Witness ==
    /\ event.kind = "WindowClosed"
    /\ WorkspaceLen(prev) = 1
    /\ WorkspaceContains(prev, event.window)
    /\ workspace.stack = None
    /\ running

----------------------------------------------------------------------------
(* Properties of Rectangle::is_inside, checked under RectangleSpec.  x + width *)
(* and y + height below are the sums of the integers, the edges of the spec's  *)
(* data model (right = x + width, bottom = y + height).                        *)

\* C24: is_inside(px, py) is true for a point strictly within the rectangle and
\* false for a point below its bottom border (py > y + height); on
\* Rectangle(10, 10, 20, 10), is_inside(12, 15) is true and is_inside(12, 21) false.
C24_IsInside ==
    inside # Pending =>
        /\ ( /\ rectangle.x < point.x
             /\ point.x < rectangle.x + rectangle.width
             /\ rectangle.y < point.y
             /\ point.y < rectangle.y + rectangle.height ) => inside = Returned(TRUE)
        /\ point.y > rectangle.y + rectangle.height => inside = Returned(FALSE)
        /\ (rectangle = DocRectangle /\ point = [x |-> 12, y |-> 15]) =>
                inside = Returned(TRUE)
        /\ (rectangle = DocRectangle /\ point = [x |-> 12, y |-> 21]) =>
                inside = Returned(FALSE)

\* C30: is_inside treats the bottom edge as exclusive: a point whose y equals
\* y + height, with x inside the horizontal range, is reported as not inside.
C30_BottomEdgeExclusive ==
    ( /\ inside # Pending
      /\ point.y = rectangle.y + rectangle.height
      /\ rectangle.x <= point.x
      /\ point.x < rectangle.x + rectangle.width ) => inside = Returned(FALSE)

====
